---- MODULE Spec2Model ----
(***************************************************************************)
(* The execution and judging engine of the online judge:                   *)
(*   - SecureCodeRunner.run        (src/problems/code_runner.py)           *)
(*   - SecureCodeJudge / judge_submission (src/submissions/judge.py)       *)
(*   - the request handlers that trigger judging                           *)
(*     (src/submissions/views.py, src/submissions/api_views.py)            *)
(*                                                                         *)
(* Time is counted in whole seconds.  Texts (stdin, stdout, expected       *)
(* output) are sequences of one-character strings so that str.strip() is   *)
(* computed, not assumed.  Messages are pairs <<tag, detail>>.             *)
(***************************************************************************)
EXTENDS Integers, Sequences, FiniteSets, TLC

VARIABLES
    judge_client,   \* judge.py's module-level docker_client is not None
    runner_client,  \* code_runner.py's module-level docker_client is not None
    tests,          \* the problem's test cases, in ascending id order
    time_limit,     \* problem.time_limit
    sub,            \* the Submission object held by the worker
    pc,             \* position of the worker that judges the submission
    req,            \* the request that triggered judging, and its retry count
    idx,            \* loop position of _run_all_test_cases
    total_time,     \* local total_time of _run_all_test_cases
    passed_count,   \* local passed_count of _run_all_test_cases
    runs,           \* history: the executor calls of the current session
    stats_calls,    \* history: UserProfile.update_stats calls of the session
    last_run,       \* the latest ad-hoc SecureCodeRunner.run call and its result
    row,            \* the submission's row in the database, as last saved
    rival,          \* the thread of a re-judge request that did not wait
    prev,           \* history: the session that a re-judge replaces
    last_case,      \* the latest evaluation of one test case, taken alone
    spent,          \* history: seconds that the run steps of the session took
    session_dir     \* history: the TemporaryDirectory of judge() and its users

vars == <<judge_client, runner_client, tests, time_limit, sub, pc, req, idx,
          total_time, passed_count, runs, stats_calls, last_run, row, rival, prev,
          last_case, spent, session_dir>>

-----------------------------------------------------------------------------
(* Bounds of the model *)

MaxCases == 3
MaxDur == 4
MaxSessions == 2

\* Problem.time_limit, at its default of 1.0 s
DefaultTimeLimit == 1

-----------------------------------------------------------------------------
(* Texts and str.strip() *)

T_empty == << >>
T_blank == <<" ">>
T_x == <<"x">>
T_y == <<"y">>
T_x_trail == <<"x", " ">>
T_x_lead == <<" ", "x">>

IsSpace(c) == c = " "

RECURSIVE LStrip(_)
LStrip(s) ==
    IF s = << >> THEN << >>
    ELSE IF IsSpace(Head(s)) THEN LStrip(Tail(s)) ELSE s

RECURSIVE RStrip(_)
RStrip(s) ==
    IF s = << >> THEN << >>
    ELSE IF IsSpace(s[Len(s)]) THEN RStrip(SubSeq(s, 1, Len(s) - 1)) ELSE s

\* Python's str.strip(): leading and trailing whitespace removed
Strip(s) == RStrip(LStrip(s))

-----------------------------------------------------------------------------
(* Values shared by the result dictionaries *)

Absent == <<"<absent>">>          \* a key the dictionary does not hold
NoMsg == << >>                    \* the empty string ''
Msg(tag, detail) == <<tag, detail>>
NoTime == [s |-> -1]              \* no 'execution_time' key

\* f'{dt:.3f}s' and float(s.replace('s', '')), at the model's granularity
FormatTime(dt) == [s |-> dt]
ParseTime(t) == t.s

Languages == {"python", "cpp", "java", "c"}
LanguageTags == Languages \cup {"ruby"}
Compiled(language) == language \in {"cpp", "java", "c"}

\* the code text, as far as the engine inspects it: re.search(r'class\s+(\w+)')
Codes == {"plain", "class"}
HasClass(code) == code = "class"
\* only the Java paths inspect the code text
CodesOf(language) == IF language = "java" THEN Codes ELSE {"plain"}

StdErrs == {"", "err", "g++: err"}
\* 'g++' in err or 'compilation' in err.lower()  (and gcc, javac)
MentionsCompiler(err) == err = "g++: err"

-----------------------------------------------------------------------------
(* What the environment does during one executor call: the toolchain, the *)
(* program under test and the operating system.  Fields that the code     *)
(* cannot observe after an earlier failure are kept at their defaults.    *)

NoType == "<absent>"
ExitCodes == {0, 1, 137}
Outputs == {T_y, T_x_trail}

DefaultBehaviour ==
    [solution_file_ok |-> TRUE,
     tmp_ok |-> TRUE, write_ok |-> TRUE, backend_ok |-> TRUE, cleanup_ok |-> TRUE,
     image_found |-> TRUE,
     comp_exit |-> 0, comp_err |-> "", comp_dur |-> 0,
     exit |-> 0, out |-> T_x, err |-> "", dur |-> 0]

RunBehaviours ==
    { [DefaultBehaviour EXCEPT !.exit = e, !.out = o, !.err = r, !.dur = d] :
        e \in ExitCodes, o \in Outputs, r \in StdErrs, d \in 0..MaxDur }

FaultBehaviours ==
    { [DefaultBehaviour EXCEPT !.solution_file_ok = FALSE],
      [DefaultBehaviour EXCEPT !.image_found = FALSE],
      [DefaultBehaviour EXCEPT !.tmp_ok = FALSE],
      [DefaultBehaviour EXCEPT !.write_ok = FALSE],
      [DefaultBehaviour EXCEPT !.backend_ok = FALSE],
      [DefaultBehaviour EXCEPT !.cleanup_ok = FALSE],
      [DefaultBehaviour EXCEPT !.write_ok = FALSE, !.cleanup_ok = FALSE],
      [DefaultBehaviour EXCEPT !.backend_ok = FALSE, !.cleanup_ok = FALSE] }

CompileBehaviours ==
    { [DefaultBehaviour EXCEPT !.comp_exit = 1, !.comp_err = r, !.comp_dur = d] :
        r \in StdErrs, d \in {0, MaxDur} }
    \cup
    { [b EXCEPT !.comp_err = r, !.comp_dur = d] :
        b \in RunBehaviours, r \in {"", "g++: err"}, d \in {0, MaxDur} }

Behaviours(language) ==
    IF Compiled(language)
    THEN FaultBehaviours \cup CompileBehaviours
    ELSE FaultBehaviours \cup RunBehaviours

-----------------------------------------------------------------------------
(* SecureCodeRunner: the result dictionary and the side effects of a call *)

Success(out, dt) ==
    [success |-> TRUE, output |-> out, error |-> Absent, error_type |-> NoType,
     execution_time |-> FormatTime(dt)]

Failure(type, msg) ==
    [success |-> FALSE, output |-> Absent, error |-> msg, error_type |-> type,
     execution_time |-> NoTime]

NoEffects ==
    [tmp_created |-> FALSE, tmp_removed |-> FALSE,
     compile_started |-> FALSE, run_started |-> FALSE]

TimeoutMsg == Msg("Time Limit Exceeded: Execution took longer than", "time_limit")
GenericRuntimeMsg == Msg("Runtime error occurred", "")
StderrOr(err, generic) == IF err = "" THEN generic ELSE Msg(err, "")

\* the steps of a local run: [r |-> result, compile_started, run_started]
Step(r, c, x) == [r |-> r, compile_started |-> c, run_started |-> x]

\* subprocess.run(..., timeout=time_limit) of the program, and the mapping of
\* its return code
LocalRunStep(b, limit, c) ==
    IF b.dur > limit THEN Step(Failure("timeout", TimeoutMsg), c, TRUE)
    ELSE IF b.exit = 0 THEN Step(Success(Strip(b.out), b.dur), c, TRUE)
    ELSE Step(Failure("runtime_error", StderrOr(b.err, GenericRuntimeMsg)), c, TRUE)

LocalException == Failure("runtime_error", Msg("Runtime Error:", "exception"))

_run_python(code, input_data, limit, b) ==
    IF ~b.write_ok \/ ~b.backend_ok THEN Step(LocalException, FALSE, FALSE)
    ELSE LocalRunStep(b, limit, FALSE)

\* _run_cpp and _run_c: write, compile without a timeout, run
LocalCompiled(code, input_data, limit, b) ==
    IF ~b.write_ok \/ ~b.backend_ok THEN Step(LocalException, FALSE, FALSE)
    ELSE IF b.comp_exit # 0
    THEN Step(Failure("compilation_error", Msg("Compilation Error:", b.comp_err)),
              TRUE, FALSE)
    ELSE LocalRunStep(b, limit, TRUE)

_run_cpp(code, input_data, limit, b) == LocalCompiled(code, input_data, limit, b)

_run_c(code, input_data, limit, b) == LocalCompiled(code, input_data, limit, b)

_run_java(code, input_data, limit, b) ==
    IF ~HasClass(code)
    THEN Step(Failure("compilation_error",
                      Msg("Compilation Error: No class found in Java code", "")),
              FALSE, FALSE)
    ELSE LocalCompiled(code, input_data, limit, b)

-----------------------------------------------------------------------------
(* SecureCodeRunner, hardened mode: one container runs "compile && run"   *)

DockerSlack == 2

ConcatErr(e1, e2) ==
    IF e1 = "" THEN e2
    ELSE IF e2 = "" THEN e1
    ELSE IF MentionsCompiler(e1) \/ MentionsCompiler(e2) THEN "g++: err" ELSE "err"

CompileFailed(b, compiled) == compiled /\ b.comp_exit # 0

\* what the container of a run() call does: StatusCode, logs, wall time
ContainerStatus(b, compiled) == IF CompileFailed(b, compiled) THEN b.comp_exit ELSE b.exit
ContainerStderr(b, compiled) ==
    IF CompileFailed(b, compiled) THEN b.comp_err
    ELSE IF compiled THEN ConcatErr(b.comp_err, b.err) ELSE b.err
ContainerTime(b, compiled) ==
    IF CompileFailed(b, compiled) THEN b.comp_dur
    ELSE IF compiled THEN b.comp_dur + b.dur ELSE b.dur

DockerException == Failure("runtime_error", Msg("str(e)", "exception"))

\* container.wait(timeout=time_limit + 2) and the mapping of StatusCode;
\* checks_compiler is the "'g++' in err or 'compilation' in err.lower()" test
DockerContainer(b, limit, compiled, checks_compiler) ==
    LET status == ContainerStatus(b, compiled)
        err == ContainerStderr(b, compiled)
        dt == ContainerTime(b, compiled)
        ran == ~CompileFailed(b, compiled)
    IN  IF ~b.write_ok \/ ~b.backend_ok \/ ~b.image_found
        THEN Step(DockerException, FALSE, FALSE)
        ELSE IF dt > limit + DockerSlack THEN Step(DockerException, compiled, ran)
        ELSE IF status = 0 THEN Step(Success(Strip(b.out), dt), compiled, ran)
        ELSE IF status = 137 THEN Step(Failure("timeout", TimeoutMsg), compiled, ran)
        ELSE IF checks_compiler /\ MentionsCompiler(err)
        THEN Step(Failure("compilation_error", Msg(err, "")), compiled, ran)
        ELSE Step(Failure("runtime_error", StderrOr(err, GenericRuntimeMsg)),
                  compiled, ran)

_run_python_docker(code, input_data, limit, b) ==
    DockerContainer(b, limit, FALSE, FALSE)

_run_cpp_docker(code, input_data, limit, b) ==
    DockerContainer(b, limit, TRUE, TRUE)

_run_c_docker(code, input_data, limit, b) ==
    DockerContainer(b, limit, TRUE, TRUE)

_run_java_docker(code, input_data, limit, b) ==
    IF ~HasClass(code)
    THEN Step(Failure("compilation_error", Msg("No class found in Java code", "")),
              FALSE, FALSE)
    ELSE DockerContainer(b, limit, TRUE, TRUE)

-----------------------------------------------------------------------------
(* SecureCodeRunner.run *)

\* what a call gives its caller: a result dictionary, or an exception
Returned(r, fx) == [raised |-> FALSE, res |-> r, fx |-> fx]
Raised(fx) ==
    [raised |-> TRUE, res |-> Failure(NoType, Absent), fx |-> fx]

InvalidInput ==
    Failure("invalid_input", Msg("Invalid Test Case: No input provided", ""))
UnsupportedLanguage ==
    Failure("system_error", Msg("Unsupported language:", "language"))

Dispatch(client, language, code, input_data, limit, b) ==
    IF client
    THEN CASE language = "python" -> _run_python_docker(code, input_data, limit, b)
           [] language = "cpp" -> _run_cpp_docker(code, input_data, limit, b)
           [] language = "java" -> _run_java_docker(code, input_data, limit, b)
           [] language = "c" -> _run_c_docker(code, input_data, limit, b)
           [] OTHER -> Step(UnsupportedLanguage, FALSE, FALSE)
    ELSE CASE language = "python" -> _run_python(code, input_data, limit, b)
           [] language = "cpp" -> _run_cpp(code, input_data, limit, b)
           [] language = "java" -> _run_java(code, input_data, limit, b)
           [] language = "c" -> _run_c(code, input_data, limit, b)
           [] OTHER -> Step(UnsupportedLanguage, FALSE, FALSE)

\* the check without strip(): only the empty string is rejected
RejectsInput_NoStrip(input_data) == input_data = << >>

\* the empty-input check of run(), made before anything else
RejectsInput(input_data) == Strip(input_data) = << >>

\* the handler of "except Exception" in run()
RunExcept(client) ==
    Failure(IF client THEN "system_error" ELSE "runtime_error",
            Msg("Execution failed:", "exception"))

\* the "finally" of run(): temp_dir_obj.cleanup(), which may itself raise
RunFinally(b, st) ==
    LET fx == [tmp_created |-> TRUE, tmp_removed |-> b.cleanup_ok,
               compile_started |-> st.compile_started,
               run_started |-> st.run_started]
    IN  IF b.cleanup_ok THEN Returned(st.r, fx) ELSE Raised(fx)

run(client, language, code, input_data, limit, b) ==
    IF RejectsInput(input_data) THEN Returned(InvalidInput, NoEffects)
    ELSE IF ~b.tmp_ok THEN Returned(RunExcept(client), NoEffects)
    ELSE RunFinally(b, Dispatch(client, language, code, input_data, limit, b))

-----------------------------------------------------------------------------
(* SecureCodeJudge: the hardened path of judge.py, one container per step *)

JudgeResult(status, out, err, t) ==
    [status |-> status, output |-> out, error |-> err, execution_time |-> t]

ErrText(err) == IF err = "" THEN NoMsg ELSE Msg(err, "")
TimedOutMsg == Msg("Timed out after", "time_limit")

\* _run_container: containers.run, container.wait(timeout=time_limit), logs
_run_container(b, limit, exit, out, err, dur) ==
    IF ~b.image_found
    THEN JudgeResult("Runtime Error", Absent, Msg("Docker image not found:", "image"),
                     NoTime)
    ELSE IF ~b.backend_ok \/ dur > limit
    THEN JudgeResult("Time Limit Exceeded", Absent, TimedOutMsg, NoTime)
    ELSE IF exit = 0 /\ err = ""
    THEN JudgeResult("Accepted", out, ErrText(err), NoTime)
    ELSE JudgeResult("Runtime Error", out, ErrText(err), NoTime)

JudgeRunContainer(b, limit) == _run_container(b, limit, b.exit, b.out, b.err, b.dur)

\* _run_cpp_docker, _run_c_docker, _run_java_docker of judge.py
JudgeCompiledDocker(b, limit) ==
    LET compile_result ==
            _run_container(b, limit, b.comp_exit, T_empty, b.comp_err, b.comp_dur)
    IN  IF compile_result.status # "Accepted"
        THEN [compile_result EXCEPT !.status = "Compilation Error"]
        ELSE JudgeRunContainer(b, limit)

JudgeDocker(language, b, limit) ==
    IF language = "python" THEN JudgeRunContainer(b, limit)
    ELSE IF language \in {"cpp", "c", "java"} THEN JudgeCompiledDocker(b, limit)
    ELSE JudgeResult("System Error", T_empty, Msg("Unsupported language:", "language"),
                     FormatTime(0))

-----------------------------------------------------------------------------
(* SecureCodeJudge._run_single_test_case *)

\* error_type_map without its 'timeout' entry, which then falls to the default
error_type_map_NoTimeout(error_type) ==
    CASE error_type = "compilation_error" -> "Compilation Error"
      [] error_type = "runtime_error" -> "Runtime Error"
      [] error_type = "timeout_error" -> "Time Limit Exceeded"
      [] error_type = "system_error" -> "System Error"
      [] error_type = "invalid_input" -> "Invalid Input"
      [] OTHER -> "Runtime Error"

error_type_map(error_type) ==
    CASE error_type = "compilation_error" -> "Compilation Error"
      [] error_type = "runtime_error" -> "Runtime Error"
      [] error_type = "timeout_error" -> "Time Limit Exceeded"
      [] error_type = "timeout" -> "Time Limit Exceeded"
      [] error_type = "system_error" -> "System Error"
      [] error_type = "invalid_input" -> "Invalid Input"
      [] OTHER -> "Runtime Error"

GetOr(value, default) == IF value = Absent THEN default ELSE value
GetTime(t) == IF t = NoTime THEN FormatTime(0) ELSE t

\* the fallback that wraps SecureCodeRunner.run's dictionary
FromRunner(result) ==
    IF result.success
    THEN JudgeResult("Accepted", GetOr(result.output, T_empty), NoMsg,
                     GetTime(result.execution_time))
    ELSE JudgeResult(error_type_map(IF result.error_type = NoType
                                    THEN "runtime_error" ELSE result.error_type),
                     GetOr(result.output, T_empty),
                     GetOr(result.error, Msg("Unknown error", "")),
                     FormatTime(0))

\* [raised, res: the judge-side result, outcome: what the executor reported]
_run_single_test_case(jclient, rclient, language, code, input_data, limit, b) ==
    IF ~b.solution_file_ok
    THEN [raised |-> TRUE, res |-> JudgeResult("<raised>", Absent, Absent, NoTime),
          outcome |-> "<raised>", called |-> FALSE]
    ELSE IF ~jclient
    THEN LET call == run(rclient, language, code, input_data, limit, b)
         IN  IF call.raised
             THEN [raised |-> TRUE,
                   res |-> JudgeResult("<raised>", Absent, Absent, NoTime),
                   outcome |-> "<raised>", called |-> TRUE]
             ELSE [raised |-> FALSE, res |-> FromRunner(call.res),
                   outcome |-> IF call.res.success THEN "success"
                               ELSE call.res.error_type,
                   called |-> TRUE]
    ELSE LET r == JudgeDocker(language, b, limit)
         IN  [raised |-> FALSE, res |-> r, outcome |-> r.status, called |-> TRUE]

-----------------------------------------------------------------------------
(* The Submission record and its persistence *)

\* execution_time and memory_used hold -1 for None; judged_at holds 0 for None
\* and otherwise the number of the session that set it
NoSubmission ==
    [exists |-> FALSE, language |-> "python", code |-> "plain", status |-> "Pending",
     output |-> T_empty, error |-> NoMsg, execution_time |-> -1, memory_used |-> -1,
     test_cases_passed |-> 0, test_cases_total |-> 0, judged_at |-> 0]

\* Submission.objects.create(..., status='Pending') and serializer.save()
NewSubmission(language, code) ==
    [NoSubmission EXCEPT !.exists = TRUE, !.language = language, !.code = code]

STATUS_CHOICES ==
    {"Pending", "Accepted", "Wrong Answer", "Time Limit Exceeded", "Runtime Error",
     "Compilation Error", "Memory Limit Exceeded"}

LANGUAGE_CONFIGS == {"python", "cpp", "c", "java"}

\* the post_save receiver update_user_stats_on_submission: with one submission
\* of the user for the problem, an accepted one is the first accepted one
SignalUpdatesStats(s) == s.status = "Accepted"

-----------------------------------------------------------------------------
(* The handlers of SecureCodeJudge.judge and judge_submission *)

JudgingSystemError(s) ==
    [s EXCEPT !.status = "Runtime Error",
              !.error = Msg("An unexpected judging system error occurred:", "exception")]

\* a handler that records the message but leaves the status as it was
JudgeExcept_KeepsStatus(s) ==
    [s EXCEPT !.error = Msg("An unexpected judging system error occurred:", "exception")]

\* the "except Exception" of judge()
JudgeExcept(s) == JudgingSystemError(s)

\* the "finally" of judge(): judged_at = now(), save()
JudgeFinally(s, now) == [s EXCEPT !.judged_at = now]

\* the "except Exception" of judge_submission
FatalError(s, now) ==
    [s EXCEPT !.status = "Runtime Error",
              !.error = Msg("A fatal error occurred in the judging system:", "exception"),
              !.judged_at = now]

\* RecordFailure with the failing case counted among the passed ones
RecordFailure_CountsFailing(s, result, actual_output, total, passed, n) ==
    [s EXCEPT !.status = IF result.status = "Accepted" THEN "Wrong Answer"
                         ELSE result.status,
              !.output = actual_output,
              !.error = GetOr(result.error, NoMsg),
              !.execution_time = total,
              !.memory_used = 0,
              !.test_cases_passed = passed + 1,
              !.test_cases_total = n]

\* the branch of _run_all_test_cases taken at the first non-passing result
RecordFailure(s, result, actual_output, total, passed, n) ==
    [s EXCEPT !.status = IF result.status = "Accepted" THEN "Wrong Answer"
                         ELSE result.status,
              !.output = actual_output,
              !.error = GetOr(result.error, NoMsg),
              !.execution_time = total,
              !.memory_used = 0,
              !.test_cases_passed = passed,
              !.test_cases_total = n]

\* the end of _run_all_test_cases when every case passed
RecordAccepted(s, total, passed, n) ==
    [s EXCEPT !.status = "Accepted",
              !.execution_time = total,
              !.memory_used = 0,
              !.test_cases_passed = passed,
              !.test_cases_total = n]

\* "result['status'] == 'Accepted' and actual_output == expected_output"
Passes(result, expected_output) ==
    /\ result.status = "Accepted"
    /\ Strip(GetOr(result.output, T_empty)) = Strip(expected_output)

-----------------------------------------------------------------------------
(* Initial states *)

\* judge.py: docker.from_env() and docker_client.ping() at import time
JudgeDockerClient(use_docker, lib, from_env_ok, ping_ok) ==
    use_docker /\ lib /\ from_env_ok /\ ping_ok

\* code_runner.py: _get_docker_client()
_get_docker_client(use_docker, lib, from_env_ok) ==
    use_docker /\ lib /\ from_env_ok

TestCase(input_data, expected_output) ==
    [input_data |-> input_data, expected_output |-> expected_output]

TestCases == {TestCase(T_x, T_x_lead), TestCase(T_blank, T_x)}

TestSuites == UNION {[1..n -> TestCases] : n \in 0..MaxCases}

NoRequest == [kind |-> "none", retried |-> FALSE, session |-> 0]

NoRun ==
    [done |-> FALSE, language |-> "python", code |-> "plain", input_data |-> T_empty,
     b |-> DefaultBehaviour, call |-> Returned(InvalidInput, NoEffects)]

\* no re-judge thread beside the worker
NoRival ==
    [pc |-> "idle", sub |-> NoSubmission, idx |-> 0, total_time |-> 0,
     passed_count |-> 0]

NoPrev ==
    [valid |-> FALSE, status |-> "Pending", test_cases_passed |-> 0,
     test_cases_total |-> 0, runs |-> << >>]

\* the directory that judge() creates: the files in it, the test cases that
\* wrote or executed in it, and the files that the latest test case found in
\* the directory in which its program executes
NoDir == [files |-> {}, used_by |-> {}, seen |-> {}]

NoCase ==
    [done |-> FALSE, language |-> "python", code |-> "plain",
     test_case |-> TestCase(T_x, T_x), b |-> DefaultBehaviour, raised |-> FALSE,
     outcome |-> "success", result |-> JudgeResult("Accepted", T_x, NoMsg, NoTime),
     passed |-> TRUE]

Init ==
    /\ \E use_docker \in BOOLEAN, lib \in BOOLEAN, from_env_ok \in BOOLEAN,
          ping_ok \in BOOLEAN :
          /\ judge_client = JudgeDockerClient(use_docker, lib, from_env_ok, ping_ok)
          /\ runner_client = _get_docker_client(use_docker, lib, from_env_ok)
    /\ tests \in TestSuites
    /\ time_limit = DefaultTimeLimit
    /\ sub = NoSubmission
    /\ pc = "idle"
    /\ req = NoRequest
    /\ idx = 0
    /\ total_time = 0
    /\ passed_count = 0
    /\ runs = << >>
    /\ stats_calls = 0
    /\ last_run = NoRun
    /\ row = NoSubmission
    /\ rival = NoRival
    /\ prev = NoPrev
    /\ last_case = NoCase
    /\ spent = 0
    /\ session_dir = NoDir

-----------------------------------------------------------------------------
(* Request handlers *)

\* a call of judge_submission(submission) begins; the locals of the previous
\* session and its history are gone
StartSession(kind, retried) ==
    /\ req' = [kind |-> kind, retried |-> retried, session |-> req.session + 1]
    /\ pc' = "init"
    /\ idx' = 0
    /\ total_time' = 0
    /\ passed_count' = 0
    /\ runs' = << >>
    /\ stats_calls' = 0
    /\ spent' = 0
    /\ session_dir' = NoDir

\* SubmitCodeView.post up to the first judge_submission(submission)
SubmitWeb ==
    /\ pc = "idle"
    /\ \E language \in LanguageTags :
          \E code \in CodesOf(language) : sub' = NewSubmission(language, code)
    /\ row' = sub'
    /\ StartSession("web", FALSE)
    /\ UNCHANGED <<judge_client, runner_client, tests, time_limit, last_run, rival,
                   prev, last_case>>

\* SubmissionListCreateAPIView.perform_create: save, then start the thread
ApiCreate ==
    /\ pc = "idle"
    /\ \E language \in Languages :
          \E code \in CodesOf(language) : sub' = NewSubmission(language, code)
    /\ row' = sub'
    /\ req' = [kind |-> "api_create", retried |-> FALSE, session |-> req.session + 1]
    /\ pc' = "api_thread"
    /\ UNCHANGED <<judge_client, runner_client, tests, time_limit, idx, total_time,
                   passed_count, runs, stats_calls, last_run, rival, prev, last_case, spent, session_dir>>

\* judge_async: judge_submission(submission.id) is given an int.
\* SecureCodeJudge(int) raises AttributeError, the handler of judge_submission
\* raises again on "submission.status = ..." and judge_async catches that.
JudgingFailed(s) ==
    [s EXCEPT !.status = "Runtime Error",
              !.error = Msg("Judging failed:", "exception")]

ApiJudgeAsync ==
    /\ pc = "api_thread"
    /\ sub' = JudgingFailed(sub)
    /\ row' = sub'
    /\ pc' = "done"
    /\ UNCHANGED <<judge_client, runner_client, tests, time_limit, req, idx,
                   total_time, passed_count, runs, stats_calls, last_run, rival, prev, last_case, spent, session_dir>>

\* rejudge_submission: the row is loaded, reset and saved;
\* "submission.total_test_cases = 0" names no field of the model, so
\* test_cases_total keeps its value
\* a reset whose misspelt assignment is the one of test_cases_passed
RejudgeReset_KeepsPassed(s) ==
    [s EXCEPT !.status = "Pending", !.execution_time = -1, !.memory_used = -1,
              !.output = T_empty, !.error = NoMsg, !.test_cases_total = 0]

RejudgeReset(s) ==
    [s EXCEPT !.status = "Pending", !.execution_time = -1, !.memory_used = -1,
              !.output = T_empty, !.error = NoMsg, !.test_cases_passed = 0]

Rejudge ==
    /\ pc = "done"
    /\ sub.exists
    /\ req.session < MaxSessions
    /\ sub' = RejudgeReset(row)
    /\ row' = sub'
    /\ StartSession("rejudge", FALSE)
    /\ UNCHANGED <<judge_client, runner_client, tests, time_limit, last_run, rival,
                   prev, last_case>>

\* bulk_submission_action, action 'rejudge': submissions.update(...,
\* total_test_cases=0) names no field of Submission and raises before any
\* row is changed or any thread is started
BulkRejudge ==
    /\ pc = "done"
    /\ sub.exists
    /\ req' = [req EXCEPT !.kind = "bulk"]
    /\ UNCHANGED <<judge_client, runner_client, tests, time_limit, sub, pc, idx,
                   total_time, passed_count, runs, stats_calls, last_run, row, rival,
                   prev, last_case, spent, session_dir>>

-----------------------------------------------------------------------------
(* One judging session: judge_submission(submission) *)

Now == req.session

\* an empty test-case set that returns without recording anything
NoTestCases_Silent(s) == s

NoTestCases(s) ==
    [s EXCEPT !.status = "Runtime Error",
              !.error = Msg("No test cases found for this problem.", "")]

\* judge_submission up to the first executor call: SecureCodeJudge.__init__,
\* judge(), and the head of _run_all_test_cases
JudgeStart ==
    /\ pc = "init"
    /\ IF sub.language \notin LANGUAGE_CONFIGS
       THEN /\ sub' = FatalError(sub, Now)
            /\ row' = sub'
            /\ pc' = "after"
            /\ idx' = 0
       ELSE IF Len(tests) = 0
       THEN /\ sub' = JudgeFinally(NoTestCases(sub), Now)
            /\ row' = sub'
            /\ pc' = "after"
            /\ idx' = 0
       ELSE /\ sub' = sub
            /\ row' = row
            /\ pc' = "loop"
            /\ idx' = 1
    /\ UNCHANGED <<judge_client, runner_client, tests, time_limit, req, total_time,
                   passed_count, runs, stats_calls, last_run, rival, prev, last_case, spent, session_dir>>

\* a loop over the test cases in descending order of id
CaseAt_Descending(i) == Len(tests) + 1 - i

\* testcase_set.all().order_by('id'): the id of the case that the i-th
\* iteration of the loop takes
CaseAt(i) == i

RunEntry(case, call, passed, elapsed) ==
    [case |-> case, called |-> call.called, raised |-> call.raised,
     outcome |-> call.outcome, status |-> call.res.status, passed |-> passed,
     elapsed |-> elapsed, actual_output |-> Strip(GetOr(call.res.output, T_empty)),
     error |-> GetOr(call.res.error, NoMsg)]

\* what the executor call for one test case can give, over every behaviour of
\* the environment
ExecutorCalls(input_data) ==
    { _run_single_test_case(judge_client, runner_client, sub.language, sub.code,
                            input_data, time_limit, b) :
        b \in Behaviours(sub.language) }

\* one iteration of the loop of _run_all_test_cases on the result of its
\* executor call, with judge()'s handlers when the iteration ends the session
RunCaseBody(call) ==
    LET test_case == tests[CaseAt(idx)]
        result == call.res
        execution_time_float == ParseTime(GetTime(result.execution_time))
        total == total_time + execution_time_float
        actual_output == Strip(GetOr(result.output, T_empty))
        passed == ~call.raised /\ Passes(result, test_case.expected_output)
    IN  /\ runs' = Append(runs, RunEntry(CaseAt(idx), call, passed,
                                IF call.raised THEN 0 ELSE execution_time_float))
        /\ IF call.raised
           THEN /\ sub' = JudgeFinally(JudgeExcept(sub), Now)
                /\ row' = sub'
                /\ pc' = "after"
                /\ UNCHANGED <<idx, total_time, passed_count>>
           ELSE IF passed
           THEN /\ sub' = sub
                /\ row' = row
                /\ total_time' = total
                /\ passed_count' = passed_count + 1
                /\ idx' = idx + 1
                /\ pc' = IF idx = Len(tests) THEN "finish" ELSE "loop"
           ELSE /\ sub' = JudgeFinally(
                            RecordFailure(sub, result, actual_output, total,
                                          passed_count, Len(tests)), Now)
                /\ row' = sub'
                /\ total_time' = total
                /\ pc' = "after"
                /\ UNCHANGED <<idx, passed_count>>

RunCase ==
    /\ pc = "loop"
    /\ \E call \in ExecutorCalls(tests[CaseAt(idx)].input_data) : RunCaseBody(call)
    /\ UNCHANGED <<judge_client, runner_client, tests, time_limit, req, stats_calls,
                   last_run, rival, prev, last_case, spent, session_dir>>

\* the end of _run_all_test_cases when every case passed: the verdict, the
\* update_stats call, then judge()'s handlers; save() sends post_save, whose
\* receiver calls update_stats again, and an exception of the receiver leaves
\* save() and judge() and is caught by judge_submission
Finish ==
    /\ pc = "finish"
    /\ \E stats_ok \in BOOLEAN, signal_ok \in BOOLEAN :
        LET accepted == RecordAccepted(sub, total_time, passed_count, Len(tests))
            handled == IF stats_ok THEN accepted ELSE JudgeExcept(accepted)
            saved == JudgeFinally(handled, Now)
        IN  /\ sub' = IF SignalUpdatesStats(saved) /\ ~signal_ok
                      THEN FatalError(saved, Now) ELSE saved
            /\ stats_calls' = 1 + (IF SignalUpdatesStats(saved) THEN 1 ELSE 0)
    /\ row' = sub'
    /\ pc' = "after"
    /\ UNCHANGED <<judge_client, runner_client, tests, time_limit, req, idx,
                   total_time, passed_count, runs, last_run, rival, prev, last_case, spent, session_dir>>

\* a test that takes any error text for a timed-out one
MentionsTimedOut_AnyError(error) == error # NoMsg

\* "'Timed out' in (submission.error or '')"
MentionsTimedOut(error) == error # NoMsg /\ error[1] = "Timed out after"

RetryReset(s) ==
    [s EXCEPT !.status = "Pending", !.error = NoMsg, !.execution_time = -1]

\* submission.refresh_from_db() of SubmitCodeView.post
Refreshed == IF req.kind = "web" THEN row ELSE sub

\* what the caller does once judge_submission has returned: SubmitCodeView.post
\* retries once; the re-judge thread ends
AfterJudge ==
    /\ pc = "after"
    /\ IF /\ req.kind = "web"
          /\ ~req.retried
          /\ Refreshed.status = "Compilation Error"
          /\ MentionsTimedOut(Refreshed.error)
       THEN /\ sub' = RetryReset(Refreshed)
            /\ row' = sub'
            /\ StartSession("web", TRUE)
       ELSE /\ sub' = Refreshed
            /\ row' = row
            /\ pc' = "done"
            /\ UNCHANGED <<req, idx, total_time, passed_count, runs, stats_calls,
                           spent, session_dir>>
    /\ UNCHANGED <<judge_client, runner_client, tests, time_limit, last_run, rival,
                   prev, last_case>>

Next ==
    \/ SubmitWeb
    \/ ApiCreate
    \/ ApiJudgeAsync
    \/ Rejudge
    \/ BulkRejudge
    \/ JudgeStart
    \/ RunCase
    \/ Finish
    \/ AfterJudge

Spec == Init /\ [][Next]_vars

-----------------------------------------------------------------------------
(* The ad-hoc "run code" request: run_code calls SecureCodeRunner.run with *)
(* the request's language, code and input and the problem's time limit    *)

Inputs == {T_empty, T_blank, T_x, T_x_lead}

RunCode ==
    /\ ~last_run.done
    /\ \E language \in LanguageTags, input_data \in Inputs :
        \E code \in CodesOf(language), b \in Behaviours(language) :
            last_run' = [done |-> TRUE, language |-> language, code |-> code,
                         input_data |-> input_data, b |-> b,
                         call |-> run(runner_client, language, code, input_data,
                                      time_limit, b)]
    /\ UNCHANGED <<judge_client, runner_client, tests, time_limit, sub, pc, req, idx,
                   total_time, passed_count, runs, stats_calls, row, rival, prev,
                   last_case, spent, session_dir>>

RunInit == Init /\ tests = << >>

\* the response has been sent
RunReturn ==
    /\ last_run.done
    /\ last_run' = NoRun
    /\ UNCHANGED <<judge_client, runner_client, tests, time_limit, sub, pc, req, idx,
                   total_time, passed_count, runs, stats_calls, row, rival, prev,
                   last_case, spent, session_dir>>

RunNext == RunCode \/ RunReturn

RunSpec == RunInit /\ [][RunNext]_vars

-----------------------------------------------------------------------------
(* Re-judging with the replaced session kept for comparison: the stored    *)
(* result and the executor calls of the session that the re-judge replaces *)

Snapshot(s, calls) ==
    [valid |-> TRUE, status |-> s.status, test_cases_passed |-> s.test_cases_passed,
     test_cases_total |-> s.test_cases_total, runs |-> calls]

RejudgeTracked ==
    /\ pc = "done"
    /\ sub.exists
    /\ req.session < MaxSessions
    /\ prev' = Snapshot(row, runs)
    /\ sub' = RejudgeReset(row)
    /\ row' = sub'
    /\ StartSession("rejudge", FALSE)
    /\ UNCHANGED <<judge_client, runner_client, tests, time_limit, last_run, rival,
                   last_case>>

RejudgeNext ==
    \/ SubmitWeb
    \/ ApiCreate
    \/ ApiJudgeAsync
    \/ RejudgeTracked
    \/ BulkRejudge
    \/ JudgeStart
    \/ RunCase
    \/ Finish
    \/ AfterJudge

\* problems with at most two test cases
RejudgeInit == Init /\ Len(tests) <= 2

RejudgeSpec == RejudgeInit /\ [][RejudgeNext]_vars

-----------------------------------------------------------------------------
(* Judging with a clock and the session's directory beside it: the seconds *)
(* that the program under test ran in each executor call, whatever the     *)
(* call reports, and the files that the test cases leave behind            *)

Min(a, b) == IF a < b THEN a ELSE b
Max(a, b) == IF a > b THEN a ELSE b

\* the seconds between the start of the run step and its end, or the moment
\* the executor stopped waiting for it; 0 when the run step was not started
RunStepSeconds(jclient, rclient, language, code, input_data, limit, b) ==
    IF ~b.solution_file_ok THEN 0
    ELSE IF jclient
    THEN IF /\ b.image_found /\ b.backend_ok
            /\ Compiled(language) =>
                 _run_container(b, limit, b.comp_exit, T_empty, b.comp_err,
                                b.comp_dur).status = "Accepted"
         THEN Min(b.dur, limit) ELSE 0
    ELSE LET call == run(rclient, language, code, input_data, limit, b)
         IN  IF ~call.fx.run_started THEN 0
             ELSE IF ~rclient THEN Min(b.dur, limit)
             ELSE IF Compiled(language)
             THEN Max(0, Min(b.dur, limit + DockerSlack - b.comp_dur))
             ELSE Min(b.dur, limit + DockerSlack)

\* the compile container of judge.py left its output file in the directory
LeavesBinary(language, limit, b) ==
    /\ Compiled(language)
    /\ b.image_found /\ b.backend_ok
    /\ b.comp_exit = 0 /\ b.comp_dur <= limit

\* _create_solution_file(temp_dir, ...) of every test case writes into the
\* directory of the session; the containers of judge.py mount it, while
\* SecureCodeRunner.run executes in a directory of its own
SessionDirAfter(d, i, jclient, language, limit, b) ==
    [files |-> d.files
                \cup (IF b.solution_file_ok THEN {"source"} ELSE {})
                \cup (IF b.solution_file_ok /\ jclient /\ LeavesBinary(language, limit, b)
                      THEN {"binary"} ELSE {}),
     used_by |-> d.used_by \cup {i},
     seen |-> IF jclient THEN d.files ELSE {}]

RunCaseTimed ==
    /\ pc = "loop"
    /\ \E b \in Behaviours(sub.language) :
        LET input_data == tests[CaseAt(idx)].input_data
        IN  /\ RunCaseBody(_run_single_test_case(judge_client, runner_client,
                                                 sub.language, sub.code, input_data,
                                                 time_limit, b))
            /\ spent' = spent + RunStepSeconds(judge_client, runner_client,
                                               sub.language, sub.code, input_data,
                                               time_limit, b)
            /\ session_dir' = SessionDirAfter(session_dir, CaseAt(idx), judge_client,
                                              sub.language, time_limit, b)
    /\ UNCHANGED <<judge_client, runner_client, tests, time_limit, req, stats_calls,
                   last_run, rival, prev, last_case>>

\* problems with at most two test cases
TimedInit == Init /\ Len(tests) <= 2

TimedNext ==
    \/ SubmitWeb
    \/ ApiCreate
    \/ ApiJudgeAsync
    \/ Rejudge
    \/ BulkRejudge
    \/ JudgeStart
    \/ RunCaseTimed
    \/ Finish
    \/ AfterJudge

TimedSpec == TimedInit /\ [][TimedNext]_vars

-----------------------------------------------------------------------------
(* A re-judge request that arrives whatever the worker is doing:           *)
(* rejudge_submission loads the row, resets it, saves it and starts a      *)
(* thread that calls judge_submission on its own Submission object         *)

\* the value that the rival's session gives judged_at
RivalNow == MaxSessions + 1

RivalAt(position, s) == [rival EXCEPT !.pc = position, !.sub = s]

RivalRejudge ==
    /\ row.exists
    /\ rival.pc = "idle"
    /\ row' = RejudgeReset(row)
    /\ rival' = [NoRival EXCEPT !.pc = "init", !.sub = RejudgeReset(row)]
    /\ UNCHANGED <<judge_client, runner_client, tests, time_limit, sub, pc, req, idx,
                   total_time, passed_count, runs, stats_calls, last_run, prev,
                   last_case, spent, session_dir>>

\* SecureCodeJudge.__init__, judge() and the head of _run_all_test_cases
RivalStart ==
    /\ rival.pc = "init"
    /\ IF rival.sub.language \notin LANGUAGE_CONFIGS
       THEN /\ rival' = RivalAt("ended", FatalError(rival.sub, RivalNow))
            /\ row' = rival'.sub
       ELSE IF Len(tests) = 0
       THEN /\ rival' = RivalAt("ended",
                                JudgeFinally(NoTestCases(rival.sub), RivalNow))
            /\ row' = rival'.sub
       ELSE /\ rival' = [rival EXCEPT !.pc = "loop", !.idx = 1]
            /\ row' = row
    /\ UNCHANGED <<judge_client, runner_client, tests, time_limit, sub, pc, req, idx,
                   total_time, passed_count, runs, stats_calls, last_run, prev,
                   last_case, spent, session_dir>>

\* one iteration of the loop in the rival's session
RivalRunCase ==
    /\ rival.pc = "loop"
    /\ \E call \in ExecutorCalls(tests[CaseAt(rival.idx)].input_data) :
        LET test_case == tests[CaseAt(rival.idx)]
            result == call.res
            execution_time_float == ParseTime(GetTime(result.execution_time))
            total == rival.total_time + execution_time_float
            actual_output == Strip(GetOr(result.output, T_empty))
            passed == ~call.raised /\ Passes(result, test_case.expected_output)
        IN  IF call.raised
            THEN /\ rival' = RivalAt("ended",
                                     JudgeFinally(JudgeExcept(rival.sub), RivalNow))
                 /\ row' = rival'.sub
            ELSE IF passed
            THEN /\ rival' = [rival EXCEPT
                                 !.total_time = total,
                                 !.passed_count = rival.passed_count + 1,
                                 !.idx = rival.idx + 1,
                                 !.pc = IF rival.idx = Len(tests) THEN "finish"
                                        ELSE "loop"]
                 /\ row' = row
            ELSE /\ rival' = [RivalAt("ended",
                                JudgeFinally(
                                    RecordFailure(rival.sub, result, actual_output,
                                                  total, rival.passed_count,
                                                  Len(tests)), RivalNow))
                              EXCEPT !.total_time = total]
                 /\ row' = rival'.sub
    /\ UNCHANGED <<judge_client, runner_client, tests, time_limit, sub, pc, req, idx,
                   total_time, passed_count, runs, stats_calls, last_run, prev,
                   last_case, spent, session_dir>>

\* the end of the rival's _run_all_test_cases when every case passed
RivalFinish ==
    /\ rival.pc = "finish"
    /\ \E stats_ok \in BOOLEAN, signal_ok \in BOOLEAN :
        LET accepted == RecordAccepted(rival.sub, rival.total_time,
                                       rival.passed_count, Len(tests))
            handled == IF stats_ok THEN accepted ELSE JudgeExcept(accepted)
            saved == JudgeFinally(handled, RivalNow)
        IN  rival' = RivalAt("ended",
                             IF SignalUpdatesStats(saved) /\ ~signal_ok
                             THEN FatalError(saved, RivalNow) ELSE saved)
    /\ row' = rival'.sub
    /\ UNCHANGED <<judge_client, runner_client, tests, time_limit, sub, pc, req, idx,
                   total_time, passed_count, runs, stats_calls, last_run, prev,
                   last_case, spent, session_dir>>

\* one problem with at most one test case, judged on the local backend
ConcInit == Init /\ Len(tests) <= 1 /\ ~judge_client /\ ~runner_client

ConcNext ==
    \/ SubmitWeb
    \/ ApiCreate
    \/ ApiJudgeAsync
    \/ Rejudge
    \/ BulkRejudge
    \/ JudgeStart
    \/ RunCase
    \/ Finish
    \/ AfterJudge
    \/ RivalRejudge
    \/ RivalStart
    \/ RivalRunCase
    \/ RivalFinish

ConcSpec == ConcInit /\ [][ConcNext]_vars

-----------------------------------------------------------------------------
(* One test case taken alone: the call of _run_single_test_case and the    *)
(* comparison that the loop of _run_all_test_cases makes on its result     *)

Expecteds == {T_x, T_x_lead, T_x_trail, T_y}

CaseTests == {TestCase(T_x, e) : e \in Expecteds}

JudgeCase ==
    /\ ~last_case.done
    /\ \E language \in LANGUAGE_CONFIGS, test_case \in CaseTests :
        \E code \in CodesOf(language), b \in Behaviours(language) :
            LET call == _run_single_test_case(judge_client, runner_client, language,
                                              code, test_case.input_data,
                                              time_limit, b)
            IN  last_case' =
                    [done |-> TRUE, language |-> language, code |-> code,
                     test_case |-> test_case, b |-> b, raised |-> call.raised,
                     outcome |-> call.outcome, result |-> call.res,
                     passed |-> /\ ~call.raised
                                /\ Passes(call.res, test_case.expected_output)]
    /\ UNCHANGED <<judge_client, runner_client, tests, time_limit, sub, pc, req, idx,
                   total_time, passed_count, runs, stats_calls, last_run, row, rival,
                   prev, spent, session_dir>>

\* the loop goes on to what follows the comparison
CaseReturn ==
    /\ last_case.done
    /\ last_case' = NoCase
    /\ UNCHANGED <<judge_client, runner_client, tests, time_limit, sub, pc, req, idx,
                   total_time, passed_count, runs, stats_calls, last_run, row, rival,
                   prev, spent, session_dir>>

CaseInit == Init /\ tests = << >>

CaseNext == JudgeCase \/ CaseReturn

CaseSpec == CaseInit /\ [][CaseNext]_vars

-----------------------------------------------------------------------------
(* Properties of the judging session *)

Last(seq) == seq[Len(seq)]

\* judge_submission has returned, and judge() was entered by it
JudgeReturned == pc = "after" /\ sub.language \in LANGUAGE_CONFIGS

AllCasesPassed ==
    /\ Len(runs) = Len(tests)
    /\ \A i \in 1..Len(runs) : runs[i].passed

\* a case whose executor call returned a result that did not pass
FailedAt(k) ==
    /\ k \in 1..Len(runs)
    /\ ~runs[k].raised
    /\ ~runs[k].passed

\* C1: after judge() has finished a session over a non-empty test-case set,
\* the verdict is Accepted if and only if every test case passed, whatever
\* the statistics update does.
C1_AcceptedIffAllPassed ==
    (JudgeReturned /\ Len(tests) > 0)
        => (sub.status = "Accepted" <=> AllCasesPassed)

\* C2: when case k is the first whose result does not pass, no executor call
\* is made for a later case, and the session records test_cases_passed = k-1
\* and test_cases_total = n.
C2_StopsAtFirstFailure ==
    \A k \in 1..Len(runs) :
        FailedAt(k) =>
            /\ Len(runs) = k
            /\ \A i \in 1..k : runs[i].case = i /\ runs[i].called
            /\ \A i \in 1..(k - 1) : runs[i].passed
            /\ pc \notin {"loop", "finish"}
            /\ sub.test_cases_passed = k - 1
            /\ sub.test_cases_total = Len(tests)

C2_Witness ==
    /\ pc = "after"
    /\ Len(tests) = 3
    /\ Len(runs) = 2
    /\ FailedAt(2)
    /\ sub.test_cases_passed = 1
    /\ sub.test_cases_total = 3

\* the verdict that the outcome of a run maps to directly
DirectMap(outcome) ==
    CASE outcome \in {"timeout", "Time Limit Exceeded"} -> "Time Limit Exceeded"
      [] outcome \in {"compilation_error", "Compilation Error"} -> "Compilation Error"
      [] outcome \in {"runtime_error", "Runtime Error"} -> "Runtime Error"
      [] OTHER -> "<other>"

RunSucceeded(entry) == entry.outcome \in {"success", "Accepted"}

\* C3: for the first non-passing case the verdict is Wrong Answer when the
\* run succeeded with a different output, and otherwise the direct map of
\* the executor outcome (timeout, compilation_error, runtime_error).
C3_VerdictOfFailure ==
    \A k \in 1..Len(runs) :
        FailedAt(k) =>
            /\ RunSucceeded(runs[k]) => sub.status = "Wrong Answer"
            /\ DirectMap(runs[k].outcome) # "<other>"
                  => sub.status = DirectMap(runs[k].outcome)

C3_Witness ==
    /\ pc = "after"
    /\ Len(runs) = 2
    /\ FailedAt(2)
    /\ runs[2].outcome = "timeout"
    /\ sub.status = "Time Limit Exceeded"

\* C4: the status stored on a Submission is always one of the seven verdict
\* values of STATUS_CHOICES.
C4_StatusInChoices == sub.status \in STATUS_CHOICES

Triggered == req.kind \in {"web", "api_create", "rejudge"}

\* C5: once the worker of a request that triggered judging has ended, the
\* submission is no longer Pending and judged_at is set.
C5_JudgedWhenDone ==
    (pc = "done" /\ Triggered) => (sub.status # "Pending" /\ sub.judged_at # 0)

\* C6: an exception raised while the test cases run does not leave judge():
\* the submission is saved with Runtime Error, the judging-system-error
\* message and judged_at.
C6_ExceptionBecomesRuntimeError ==
    (pc = "after" /\ runs # << >> /\ Last(runs).raised) =>
        /\ sub.status = "Runtime Error"
        /\ sub.error = Msg("An unexpected judging system error occurred:", "exception")
        /\ sub.judged_at = req.session

C6_Witness ==
    /\ pc = "after"
    /\ Len(runs) = 2
    /\ runs[2].raised
    /\ runs[2].called
    /\ sub.status = "Runtime Error"

\* C10: a run that ends with outcome timeout reports an elapsed time of at
\* least time_limit, and that much is added to the execution time.
C10_TimeoutElapsed ==
    \A i \in 1..Len(runs) :
        runs[i].outcome \in {"timeout", "Time Limit Exceeded"}
            => runs[i].elapsed >= time_limit

\* C13: with no test cases judge() ends with Runtime Error and the
\* no-test-cases message, without an executor call and without a
\* statistics update.
C13_NoTestCases ==
    (JudgeReturned /\ Len(tests) = 0) =>
        /\ sub.status = "Runtime Error"
        /\ sub.error = Msg("No test cases found for this problem.", "")
        /\ runs = << >>
        /\ stats_calls = 0

C13_Witness ==
    /\ JudgeReturned
    /\ Len(tests) = 0
    /\ req.kind = "rejudge"
    /\ sub.status = "Runtime Error"
    /\ sub.judged_at = req.session

\* C14: a session that ends with verdict Accepted has invoked
\* UserProfile.update_stats exactly once for the submission, and a session
\* that ends with any other verdict has not invoked it.
C14_StatsOncePerAccepted ==
    pc = "after" =>
        stats_calls = (IF sub.status = "Accepted" THEN 1 ELSE 0)

\* a submit request has run one session, or two when it retried, and holds
\* a verdict once the wrapper has returned
WrapperBounded ==
    req.kind = "web" =>
        /\ req.session = (IF req.retried THEN 2 ELSE 1)
        /\ pc = "done" => sub.status # "Pending"

\* a session that follows another without a new request follows the first
\* session of a submit request that ended as a timed-out compilation
RetryStep ==
    (pc = "after" /\ pc' = "init") =>
        /\ req.kind = "web"
        /\ req.session = 1
        /\ req'.session = 2
        /\ sub.status = "Compilation Error"
        /\ sub.error = TimedOutMsg

\* C15: one submit request runs at most two sessions, the second only when
\* the first ended as Compilation Error with a timed-out message, and the
\* submission holds a verdict after the wrapper has returned.
C15_AtMostOneRetry == []WrapperBounded /\ [][RetryStep]_vars

C15_Witness ==
    /\ pc = "done"
    /\ req.kind = "web"
    /\ req.retried
    /\ req.session = 2
    /\ sub.status = "Accepted"

\* the session was started by a re-judge request or by the submit retry
Rejudged == req.kind = "rejudge" \/ req.retried

\* every result field holds the value of a submission never judged
Cleared(s) ==
    /\ s.output = T_empty
    /\ s.error = NoMsg
    /\ s.execution_time = -1
    /\ s.memory_used = -1
    /\ s.test_cases_passed = 0
    /\ s.test_cases_total = 0

\* the fields that the ended session did not write hold no earlier value:
\* a session that ended before or inside an executor call writes status and
\* error only, an accepted one does not write output
NothingStale(s) ==
    /\ (runs = << >> \/ Last(runs).raised) =>
          /\ s.output = T_empty
          /\ s.execution_time = -1
          /\ s.memory_used = -1
          /\ s.test_cases_passed = 0
          /\ s.test_cases_total = 0
    /\ (runs # << >> /\ Last(runs).passed) => s.output = T_empty

\* C16: a re-judge (API re-judge or submit retry) starts from Pending with
\* output, error, execution_time, memory_used, test_cases_passed and
\* test_cases_total cleared, and when it has ended no result field holds a
\* value of the earlier session.
C16_FreshSession ==
    Rejudged =>
        /\ pc = "init" => (sub.status = "Pending" /\ Cleared(sub))
        /\ pc = "after" => NothingStale(sub)

\* the position of a thread that is inside a judging session
InSession(position) == position \in {"init", "loop", "finish"}

\* C17: at no time are two judging sessions running for the same
\* submission, whatever the interleaving of submit, re-judge and bulk
\* re-judge requests.
C17_OneSessionAtATime == ~(InSession(pc) /\ InSession(rival.pc))

\* the executor gave this session, case by case, what it gave the session
\* that was replaced
SameExecutorResults == prev.valid /\ prev.runs # << >> /\ runs = prev.runs

\* C19: re-judging with unchanged code and test cases, the executor giving
\* the same result for the same input, stores the same verdict,
\* test_cases_passed and test_cases_total as the session before.
C19_RejudgeIdempotent ==
    (pc = "after" /\ req.kind = "rejudge" /\ SameExecutorResults) =>
        /\ sub.status = prev.status
        /\ sub.test_cases_passed = prev.test_cases_passed
        /\ sub.test_cases_total = prev.test_cases_total

\* the counters of a stored record are consistent
CountersConsistent(s) ==
    /\ 0 <= s.test_cases_passed
    /\ s.test_cases_passed <= s.test_cases_total
    /\ s.status = "Accepted" => s.test_cases_passed = s.test_cases_total

\* C21: in every stored state 0 <= test_cases_passed <= test_cases_total,
\* and Accepted implies test_cases_passed = test_cases_total, across judge,
\* retry and re-judge.
C21_CountersConsistent == CountersConsistent(sub) /\ CountersConsistent(row)

C21_Witness ==
    /\ pc = "after"
    /\ req.kind = "rejudge"
    /\ Len(tests) > 1
    /\ sub.status = "Accepted"
    /\ row.test_cases_passed = Len(tests)
    /\ row.test_cases_total = Len(tests)

\* C22: when a session ends, output and error of the submission are those
\* of the failing test case, or of the last test case when all passed.
C22_OutputOfDecidingCase ==
    (JudgeReturned /\ runs # << >> /\ ~Last(runs).raised) =>
        /\ sub.output = Last(runs).actual_output
        /\ sub.error = Last(runs).error

\* the calls made so far are those of cases 1, 2, ... in this order, and
\* each but the last has returned a passing result
InOrder ==
    /\ Len(runs) <= Len(tests)
    /\ \A i \in 1..Len(runs) : runs[i].case = i
    /\ \A i \in 1..(Len(runs) - 1) : ~runs[i].raised /\ runs[i].passed
    /\ pc = "loop" => idx = Len(runs) + 1

\* a step makes at most one call, after the calls already made
OneCallPerStep ==
    (runs' # runs /\ runs' # << >>) =>
        /\ Len(runs') = Len(runs) + 1
        /\ SubSeq(runs', 1, Len(runs)) = runs

\* C23: within one session the test cases are executed in ascending id
\* order, each at most once, and the call for case i+1 is made only after
\* the call for case i has returned.
C23_SequentialInOrder == []InOrder /\ [][OneCallPerStep]_vars

C23_Witness ==
    /\ pc = "finish"
    /\ Len(runs) = Len(tests)
    /\ Len(runs) >= 3
    /\ runs[3].case = 3

\* C24: the execution_time stored when a session ends is the sum of the
\* elapsed times of the test cases attempted in it, the failing one
\* included, in both backends.
C24_TimeIsSumOfElapsed ==
    (JudgeReturned /\ runs # << >>) => sub.execution_time = spent

\* C26: no temporary directory is used by more than one test-case run, and
\* no file left by an earlier test case is visible to a later one.
C26_DirectoryPerCase ==
    /\ Cardinality(session_dir.used_by) <= 1
    /\ session_dir.seen = {}

\* the verdict that the loop of _run_all_test_cases derives from the executor
\* calls made so far
SessionVerdict ==
    IF AllCasesPassed THEN "Accepted"
    ELSE IF Last(runs).raised THEN "Runtime Error"
    ELSE IF Last(runs).status = "Accepted" THEN "Wrong Answer"
    ELSE Last(runs).status

\* C30: a submission created through the API create endpoint is fully
\* judged: once its worker has ended, the problem's test cases have been run
\* and the stored verdict is the one derived from them, as for a web submit.
C30_ApiCreateFullyJudged ==
    (pc = "done" /\ req.kind = "api_create" /\ tests # << >>) =>
        /\ runs # << >>
        /\ row.status = SessionVerdict

\* C27: the orchestrator and the executor select the same backend, whatever
\* the USE_DOCKER flag, the presence of the container library and the
\* reachability of the daemon; hardened for both, or local for both.
C27_SameBackend == judge_client = runner_client

-----------------------------------------------------------------------------
(* Properties of SecureCodeRunner.run *)

ErrorTypes ==
    {"invalid_input", "compilation_error", "runtime_error", "timeout", "system_error"}

Classified(r) ==
    \/ r.success /\ r.error_type = NoType
    \/ ~r.success /\ r.error_type \in ErrorTypes

\* C7: run() never raises, and its result has exactly one outcome.
C7_RunNeverRaises ==
    last_run.done => (~last_run.call.raised /\ Classified(last_run.call.res))

\* C8: empty or all-whitespace stdin gives invalid_input for every language
\* tag and code, before a temporary directory exists and before any step.
C8_BlankInputRejected ==
    (last_run.done /\ Strip(last_run.input_data) = << >>) =>
        /\ ~last_run.call.raised
        /\ last_run.call.res.error_type = "invalid_input"
        /\ last_run.call.fx = NoEffects

C8_Witness ==
    /\ last_run.done
    /\ last_run.input_data = T_blank
    /\ last_run.language = "ruby"
    /\ ~last_run.b.tmp_ok
    /\ last_run.call.res.error_type = "invalid_input"

\* the program was started and is still executing when time_limit has elapsed
Overran(r) == r.call.fx.run_started /\ r.b.dur > time_limit

\* C9: a run whose program is still executing at time_limit ends with outcome
\* timeout, in both backends.
C9_OverrunIsTimeout ==
    (last_run.done /\ ~last_run.call.raised /\ Overran(last_run))
        => last_run.call.res.error_type = "timeout"

\* the compile step of a compiled language was started and exited non-zero
CompileStepFailed(r) ==
    /\ Compiled(r.language)
    /\ r.call.fx.compile_started
    /\ r.b.comp_exit # 0

\* the run step was started and exited non-zero
RunStepFailed(r) ==
    /\ Compiled(r.language)
    /\ r.call.fx.run_started
    /\ r.b.exit # 0

\* the message is built from the given stderr text
CarriesStderr(msg, err) == msg # Absent /\ (msg[1] = err \/ msg[2] = err)

\* C11: for c, cpp and java, in both backends, a compile step that exits
\* non-zero gives compilation_error with the compiler's stderr and the run
\* step is not started; a failed run step is never a compilation_error.
C11_CompileFailureReported ==
    (last_run.done /\ ~last_run.call.raised) =>
        /\ CompileStepFailed(last_run) =>
              /\ last_run.call.res.error_type = "compilation_error"
              /\ CarriesStderr(last_run.call.res.error, last_run.b.comp_err)
              /\ ~last_run.call.fx.run_started
        /\ RunStepFailed(last_run) =>
              last_run.call.res.error_type # "compilation_error"

\* C18: when a run() call is over, by a result of any kind or by an
\* exception, the temporary directory it created has been removed.
C18_TempDirRemoved ==
    (last_run.done /\ last_run.call.fx.tmp_created) => last_run.call.fx.tmp_removed

\* the sandbox backend (the subprocess call, or the container library) was
\* invoked by the call and threw
BackendThrew(r) ==
    /\ ~RejectsInput(r.input_data)
    /\ r.language \in Languages
    /\ r.language = "java" => HasClass(r.code)
    /\ r.b.tmp_ok /\ r.b.write_ok
    /\ ~r.b.backend_ok

\* C25: when the sandbox backend itself throws during a run, run() reports
\* system_error in hardened mode and runtime_error in local mode.
C25_BackendFailureType ==
    (last_run.done /\ ~last_run.call.raised /\ BackendThrew(last_run)) =>
        last_run.call.res.error_type =
            IF runner_client THEN "system_error" ELSE "runtime_error"

\* the seconds that run() waited for its compile step: container.wait has a
\* timeout, the subprocess.run of the local compilers has none.  A duration
\* above every timeout stands for a step that does not exit on its own.
CompileStepSeconds(client, language, code, input_data, limit, b) ==
    LET call == run(client, language, code, input_data, limit, b)
    IN  IF ~call.fx.compile_started THEN 0
        ELSE IF client THEN Min(b.comp_dur, limit + DockerSlack)
        ELSE b.comp_dur

\* the explicit timeout of a backend
StepTimeout(client, limit) == IF client THEN limit + DockerSlack ELSE limit

\* C29: every run() call terminates: its compile step and its run step each
\* end no later than the explicit timeout of the backend, however long the
\* compiler or the program would go on by itself.
C29_StepsBounded ==
    last_run.done =>
        /\ CompileStepSeconds(runner_client, last_run.language, last_run.code,
                              last_run.input_data, time_limit, last_run.b)
              <= StepTimeout(runner_client, time_limit)
        /\ RunStepSeconds(FALSE, runner_client, last_run.language, last_run.code,
                          last_run.input_data, time_limit, last_run.b)
              <= StepTimeout(runner_client, time_limit)

-----------------------------------------------------------------------------
(* Properties of one test case *)

\* the program under test was started by the executor call
CaseRunStarted(c) ==
    IF judge_client
    THEN /\ c.b.solution_file_ok /\ c.b.image_found /\ c.b.backend_ok
         /\ Compiled(c.language) =>
              _run_container(c.b, time_limit, c.b.comp_exit, T_empty, c.b.comp_err,
                             c.b.comp_dur).status = "Accepted"
    ELSE LET call == run(runner_client, c.language, c.code, c.test_case.input_data,
                         time_limit, c.b)
         IN  c.b.solution_file_ok /\ ~call.raised /\ call.fx.run_started

\* C12: a run step that exits 0 within the time limit is a success with the
\* trimmed stdout, whatever it wrote to stderr; one that exits non-zero
\* without timing out is a runtime error carrying its stderr.
C12_ExitCodeDecides ==
    ( /\ last_case.done
      /\ ~last_case.raised
      /\ CaseRunStarted(last_case)
      /\ last_case.b.dur <= time_limit ) =>
        /\ last_case.b.exit = 0 =>
              /\ last_case.outcome \in {"success", "Accepted"}
              /\ Strip(GetOr(last_case.result.output, T_empty))
                    = Strip(last_case.b.out)
        /\ last_case.b.exit # 0 =>
              /\ last_case.outcome \in {"runtime_error", "Runtime Error"}
              /\ last_case.b.err # "" =>
                    CarriesStderr(last_case.result.error, last_case.b.err)

\* the status that the loop of _run_all_test_cases gives a test case
CaseVerdict(result, expected_output) ==
    IF Passes(result, expected_output) THEN "Accepted"
    ELSE IF result.status = "Accepted" THEN "Wrong Answer"
    ELSE result.status

\* nothing but the run step's exit code, stdout, stderr and duration differs
\* from a faultless call with a clean compile step
RawResultOnly(b) ==
    /\ b.solution_file_ok /\ b.tmp_ok /\ b.write_ok /\ b.backend_ok
    /\ b.cleanup_ok /\ b.image_found
    /\ b.comp_exit = 0 /\ b.comp_err = "" /\ b.comp_dur = 0

\* C28: for the same language, code, test input and raw backend result (here
\* of a run that ended within the time limit), the verdict recorded for the
\* run is the one the local backend gives, whichever backend executed it.
C28_VerdictIndependentOfBackend ==
    ( /\ last_case.done
      /\ ~last_case.raised
      /\ RawResultOnly(last_case.b)
      /\ last_case.b.dur <= time_limit ) =>
        LET local == _run_single_test_case(FALSE, FALSE, last_case.language,
                                           last_case.code,
                                           last_case.test_case.input_data,
                                           time_limit, last_case.b)
            expected_output == last_case.test_case.expected_output
        IN  CaseVerdict(last_case.result, expected_output)
                = CaseVerdict(local.res, expected_output)

\* C20: a test case passes only when the program's output and the expected
\* output are equal after trailing whitespace alone has been removed;
\* outputs that differ in leading or internal whitespace do not pass.
C20_TrailingTrimOnly ==
    (last_case.done /\ last_case.passed) =>
        RStrip(last_case.b.out) = RStrip(last_case.test_case.expected_output)

====
